---- MODULE Spec2Model ----
(***************************************************************************)
(* Model of two components of the OpenMW tool set:                         *)
(*   - the brush history of CSVWidget::SceneToolTextureBrush               *)
(*     (apps/opencs/view/widget/scenetooltexturebrush.cpp);                *)
(*   - the script settings search of MWGui::SettingsWindow                 *)
(*     (apps/openmw/mwgui/settingswindow.cpp).                             *)
(* The two components share no state; each has its own specification.      *)
(***************************************************************************)
EXTENDS Integers, Sequences, FiniteSets, TLC

VARIABLES
    mBrushHistory,   \* SceneToolTextureBrush::mBrushHistory (vector of ids)
    mTableRows,      \* row count of SceneToolTextureBrush::mTable
    mPanelVisible,   \* whether SceneToolTextureBrush::mPanel is shown
    mBrushTexture,   \* TextureBrushWindow::mBrushTexture
    passTextureId,   \* last identifier emitted by the passTextureId signal
    lastCall,        \* the brush handler that ran last, with its arguments
    useLog,          \* identifiers handed to updateBrushHistory, in order
    pages,           \* the script settings pages (LuaUi::scriptSettingsPageAt)
    mScriptFilter,   \* caption of SettingsWindow::mScriptFilter
    mScriptList,     \* items of SettingsWindow::mScriptList: name and user data
    pageWeights,     \* nameWeight and hintWeight computed for each page
    mRendered,       \* whether renderScriptSettings has run
    regexError,      \* whether the last render threw std::regex_error
    mCurrentPage,    \* SettingsWindow::mCurrentPage
    attachedPage,    \* index of the page attached to mScriptAdapter, -1: none
    mResolutionList, \* item names of SettingsWindow::mResolutionList
    mResolutionIndex,\* mResolutionList->getIndexSelected()
    resolutionX,     \* setting "resolution x" of category "Video"
    resolutionY,     \* setting "resolution y" of category "Video"
    windowMode,      \* setting "window mode" of category "Video"
    mWindowModeIndex,\* mWindowModeList->getIndexSelected()
    mWindowBorderEnabled, \* whether mWindowBorderButton is enabled
    dialogOpen,      \* whether the confirmation dialog asks about a resolution
    mKeyboardMode,   \* SettingsWindow::mKeyboardMode
    mKeyboardSwitch, \* whether mKeyboardSwitch is shown selected
    mControllerSwitch, \* whether mControllerSwitch is shown selected
    mControlsBox,    \* the bindings mControlsBox lists: of which input mode
    windowCall       \* the settings window handler that ran last

brushVars == <<mBrushHistory, mTableRows, mPanelVisible, mBrushTexture,
               passTextureId, lastCall, useLog>>

searchVars == <<pages, mScriptFilter, mScriptList, pageWeights, mRendered,
                regexError>>

pageVars == <<mCurrentPage, attachedPage>>

videoVars == <<mResolutionList, mResolutionIndex, resolutionX, resolutionY,
               windowMode, mWindowModeIndex, mWindowBorderEnabled, dialogOpen>>

inputVars == <<mKeyboardMode, mKeyboardSwitch, mControllerSwitch, mControlsBox>>

panelVars == <<videoVars, inputVars, windowCall>>

windowVars == <<pageVars, panelVars>>

vars == <<brushVars, searchVars, windowVars>>

-----------------------------------------------------------------------------
(* Bounds of the brush model *)

NumIds == 2
NumUseIds == 6
MaxUses == 6

(* Program constants *)

HistoryCapacity == 5

\* a seed that differs from the brush window's initial texture
Seed_Shifted == "L0#1"

Seed == "L0#0"

NoId == ""

AllIds == <<"A", "B", "C", "D", "E", "F", "G", "H">>

Ids == {AllIds[i] : i \in 1..NumIds} \cup {Seed}

UseIds == {AllIds[i] : i \in 1..NumUseIds}

Call(op, id, row, column) ==
    [op |-> op, id |-> id, row |-> row, column |-> column]

-----------------------------------------------------------------------------
(* std::vector operations used by the handlers *)

InsertFront(v, x) == <<x>> \o v

PopBack(v) == SubSeq(v, 1, Len(v) - 1)

\* a rotation in place of the swap: v[i] moves to j, the entries between shift
SwapAt_Rotate(v, i, j) ==
    [k \in 1..Len(v) |->
        IF k = j + 1 THEN v[i + 1]
        ELSE IF k > j + 1 /\ k <= i + 1 THEN v[k - 1]
        ELSE v[k]]

\* a swap that overwrites v[j] with v[i] and loses the old v[j]
SwapAt_Overwrite(v, i, j) ==
    [k \in 1..Len(v) |-> IF k = j + 1 THEN v[i + 1] ELSE v[k]]

\* std::swap(v[i], v[j]) with 0-based positions i and j
SwapAt(v, i, j) ==
    [k \in 1..Len(v) |->
        IF k = i + 1 THEN v[j + 1]
        ELSE IF k = j + 1 THEN v[i + 1]
        ELSE v[k]]

\* updateBrushHistory with the eviction test off by one (size() > 6)
HistoryAfterUse_LateEvict(v, brushTexture) ==
    LET inserted == InsertFront(v, brushTexture)
    IN  IF Len(inserted) > HistoryCapacity + 1 THEN PopBack(inserted) ELSE inserted

\* updateBrushHistory appending (push_back) and evicting the front
HistoryAfterUse_PushBack(v, brushTexture) ==
    LET inserted == Append(v, brushTexture)
    IN  IF Len(inserted) > HistoryCapacity THEN Tail(inserted) ELSE inserted

\* updateBrushHistory evicting as soon as the capacity is reached (size() >= 5)
HistoryAfterUse_EarlyEvict(v, brushTexture) ==
    LET inserted == InsertFront(v, brushTexture)
    IN  IF Len(inserted) >= HistoryCapacity THEN PopBack(inserted) ELSE inserted

\* updateBrushHistory evicting the entry next to the front instead of the last
HistoryAfterUse_EvictSecond(v, brushTexture) ==
    LET inserted == InsertFront(v, brushTexture)
    IN  IF Len(inserted) > HistoryCapacity
        THEN <<inserted[1]>> \o SubSeq(inserted, 3, Len(inserted))
        ELSE inserted

\* updateBrushHistory taking the earlier occurrences of the identifier out
HistoryAfterUse_Dedup(v, brushTexture) ==
    LET others == SelectSeq(v, LAMBDA e : e # brushTexture)
        inserted == InsertFront(others, brushTexture)
    IN  IF Len(inserted) > HistoryCapacity THEN PopBack(inserted) ELSE inserted

\* the vector after SceneToolTextureBrush::updateBrushHistory(brushTexture)
HistoryAfterUse(v, brushTexture) ==
    LET inserted == InsertFront(v, brushTexture)
    IN  IF Len(inserted) > HistoryCapacity THEN PopBack(inserted) ELSE inserted

-----------------------------------------------------------------------------
(* The settings window: the resolution list, the window mode and the input *)
(* mode.  A size_t is an integer; a negative integer n stands for the       *)
(* size_t value 2^64 + n, so that -1 is the greatest size_t.                *)

(* Bound of the display model *)

MaxModes == 2

\* MyGUI::ITEM_NONE, the greatest size_t
ITEM_NONE == -1

\* Settings::WindowMode::Windowed, after Fullscreen and WindowedFullscreen
Windowed == 2

\* a < b for two size_t values
SizeLess(a, b) == IF a < 0 THEN (b < 0 /\ a < b) ELSE (b < 0 \/ a < b)

\* the (w, h) pairs SDL_GetDisplayMode reports
ModePool == {<<16, 10>>, <<8, 6>>, <<8, 5>>, <<0, 0>>}

DisplayModes == UNION {[1..k -> ModePool] : k \in 0..MaxModes}

\* values the settings file holds for "resolution x" and "resolution y"
StoredResolutions == {<<16, 10>>, <<8, 6>>, <<4, 4>>}

\* values the settings file holds for "window mode"
StoredWindowModes == {-1, 0, 1, 2, 3}

DigitChars == <<"0", "1", "2", "3", "4", "5", "6", "7", "8", "9">>

\* MyGUI::utility::toString of a non-negative int: its decimal digits
RECURSIVE toString(_)
toString(n) ==
    IF n < 10 THEN <<DigitChars[n + 1]>>
    ELSE toString(n \div 10) \o <<DigitChars[(n % 10) + 1]>>

\* std::gcd
RECURSIVE Gcd(_, _)
Gcd(a, b) == IF b = 0 THEN a ELSE Gcd(b, a % b)

getAspect(x, y) ==
    LET gcd == Gcd(x, y)
    IN  IF gcd = 0 THEN <<>>
        ELSE LET xaspect == x \div gcd
                 yaspect == y \div gcd
             IN  IF xaspect = 8 /\ yaspect = 5
                 THEN <<"1", "6", " ", ":", " ", "1", "0">>
                 ELSE toString(xaspect) \o <<" ", ":", " ">> \o toString(yaspect)

\* the item name the constructor builds for a display mode
ResolutionItem(resolution) ==
    LET str == toString(resolution[1]) \o <<" ", "x", " ">> \o toString(resolution[2])
        aspect == getAspect(resolution[1], resolution[2])
    IN  IF aspect # <<>> THEN str \o <<" ", "(">> \o aspect \o <<")">> ELSE str

sortResolutions(left, right) ==
    IF left[1] = right[1] THEN left[2] > right[2] ELSE left[1] > right[1]

\* std::sort with sortResolutions: equivalent pairs are equal pairs, so the
\* sorted vector is unique
RECURSIVE SortedModes(_)
SortedModes(modes) ==
    IF modes = <<>> THEN <<>>
    ELSE LET first == CHOOSE k \in 1..Len(modes) :
                          \A j \in 1..Len(modes) : ~sortResolutions(modes[j], modes[k])
             rest == [j \in 1..(Len(modes) - 1) |->
                          IF j < first THEN modes[j] ELSE modes[j + 1]]
         IN  <<modes[first]>> \o SortedModes(rest)

\* the loop that fills mResolutionList: an item is added unless the list
\* holds its name already
RECURSIVE AddItems(_, _, _)
AddItems(resolutions, i, items) ==
    IF i > Len(resolutions) THEN items
    ELSE LET str == ResolutionItem(resolutions[i])
         IN  IF \E k \in 1..Len(items) : items[k] = str
             THEN AddItems(resolutions, i + 1, items)
             ELSE AddItems(resolutions, i + 1, Append(items, str))

ResolutionItems(modes) == AddItems(SortedModes(modes), 1, <<>>)

\* Misc::StringUtils::split: the non-empty fields between delimiters
RECURSIVE SplitFrom(_, _, _, _)
SplitFrom(str, i, field, delims) ==
    LET flushed == IF field = <<>> THEN <<>> ELSE <<field>>
    IN  IF i > Len(str) THEN flushed
        ELSE IF str[i] \in delims
             THEN flushed \o SplitFrom(str, i + 1, <<>>, delims)
        ELSE SplitFrom(str, i + 1, Append(field, str[i]), delims)

\* Misc::StringUtils::trim: leading and trailing whitespace removed
RECURSIVE trim(_)
trim(str) ==
    IF str = <<>> THEN <<>>
    ELSE IF Head(str) \in {" ", "\t"} THEN trim(Tail(str))
    ELSE IF str[Len(str)] \in {" ", "\t"} THEN trim(SubSeq(str, 1, Len(str) - 1))
    ELSE str

\* MyGUI::utility::parseInt: the value of a string of decimal digits, and 0
\* for any other string
RECURSIVE DigitsValue(_, _)
DigitsValue(str, n) ==
    IF n = 0 THEN 0
    ELSE 10 * DigitsValue(str, n - 1)
         + (CHOOSE d \in 0..9 : DigitChars[d + 1] = str[n])

parseInt(str) ==
    IF str # <<>> /\ \A k \in 1..Len(str) : \E d \in 1..10 : DigitChars[d] = str[k]
    THEN DigitsValue(str, Len(str))
    ELSE 0

\* the (x, y) that parseResolution reads from an item name
parseResolution(str) ==
    LET split == SplitFrom(str, 1, <<>>, {"@", "(", "x"})
    IN  <<parseInt(trim(split[1])), parseInt(trim(split[2]))>>

\* the index highlightCurrentResolution leaves selected: that of the first
\* item with the stored resolution, ITEM_NONE without such an item
highlightCurrentResolution(items, currentX, currentY) ==
    LET matching == {i \in 1..Len(items) :
                        parseResolution(items[i]) = <<currentX, currentY>>}
    IN  IF matching = {} THEN ITEM_NONE
        ELSE (CHOOSE i \in matching : \A j \in matching : i <= j) - 1

\* the index updateWindowModeSettings selects in mWindowModeList
WindowModeIndex(mode) == IF SizeLess(Windowed, mode) THEN ITEM_NONE ELSE mode

\* whether updateWindowModeSettings takes the stored mode for a full screen one
IsFullscreenIndex(index) == index # Windowed /\ index # ITEM_NONE

\* updateWindowModeSettings without the fallback to the first item
updateWindowModeSettings_NoFallback(items, selected, x, y, mode) ==
    IF IsFullscreenIndex(WindowModeIndex(mode))
    THEN IF selected # ITEM_NONE THEN parseResolution(items[selected + 1])
         ELSE <<x, y>>
    ELSE <<x, y>>

\* the stored resolution after updateWindowModeSettings
updateWindowModeSettings(items, selected, x, y, mode) ==
    IF IsFullscreenIndex(WindowModeIndex(mode))
    THEN LET chosen == IF selected # ITEM_NONE
                       THEN parseResolution(items[selected + 1])
                       ELSE <<x, y>>
             supported == \E i \in 1..Len(items) : parseResolution(items[i]) = chosen
             fallback == IF Len(items) > 0 THEN parseResolution(items[1]) ELSE <<0, 0>>
         IN  IF ~supported /\ Len(items) > 0 /\ fallback[1] # 0 /\ fallback[2] # 0
             THEN fallback
             ELSE chosen
    ELSE <<x, y>>

WindowCall(op, index, rebuilt, applied) ==
    [op |-> op, index |-> index, rebuilt |-> rebuilt, applied |-> applied]

\* the constructor's resolution list, highlight and window border button
VideoConstructed(modes, x, y, mode) ==
    /\ mResolutionList = ResolutionItems(modes)
    /\ mResolutionIndex = highlightCurrentResolution(ResolutionItems(modes), x, y)
    /\ resolutionX = x
    /\ resolutionY = y
    /\ windowMode = mode
    /\ mWindowModeIndex = ITEM_NONE
    /\ mWindowBorderEnabled = (mode # 0 /\ mode # 1)
    /\ dialogOpen = FALSE

InputConstructed ==
    /\ mKeyboardMode = TRUE
    /\ mKeyboardSwitch = TRUE
    /\ mControllerSwitch = FALSE
    /\ mControlsBox = "empty"

PageConstructed ==
    /\ mCurrentPage = -1
    /\ attachedPage = -1

\* the settings window of a display without modes, in windowed mode
WindowDefaults ==
    /\ VideoConstructed(<<>>, 0, 0, Windowed)
    /\ InputConstructed
    /\ PageConstructed
    /\ windowCall = WindowCall("constructor", ITEM_NONE, FALSE, FALSE)

-----------------------------------------------------------------------------
(* Construction: SceneToolTextureBrush and its TextureBrushWindow *)

\* a constructor that leaves the history without its seed entry
BrushConstructed_Unseeded ==
    /\ mBrushHistory = <<>>
    /\ mTableRows = 0
    /\ mPanelVisible = FALSE
    /\ mBrushTexture = "L0#0"
    /\ passTextureId = NoId
    /\ lastCall = Call("constructor", NoId, -1, -1)
    /\ useLog = <<>>

BrushConstructed ==
    /\ mBrushHistory = <<Seed>>
    /\ mTableRows = 0
    /\ mPanelVisible = FALSE
    /\ mBrushTexture = "L0#0"
    /\ passTextureId = NoId
    /\ lastCall = Call("constructor", NoId, -1, -1)
    /\ useLog = <<>>

\* SettingsWindow::SettingsWindow leaves the script list empty; nothing is
\* rendered before onOpen
SettingsConstructed ==
    /\ mScriptFilter = <<>>
    /\ mScriptList = <<>>
    /\ pageWeights = <<>>
    /\ mRendered = FALSE
    /\ regexError = FALSE

InitBrush ==
    /\ BrushConstructed
    /\ SettingsConstructed
    /\ WindowDefaults
    /\ pages = <<>>

updateBrushHistory(brushTexture) ==
    /\ mBrushHistory' = HistoryAfterUse(mBrushHistory, brushTexture)
    /\ lastCall' = Call("updateBrushHistory", brushTexture, -1, -1)
    /\ UNCHANGED <<mTableRows, mPanelVisible, mBrushTexture, passTextureId, useLog>>

\* mTable emits clicked only for a cell it holds; the slot can also be handed
\* an invalid QModelIndex, whose row and column are -1.
ClickIndexes ==
    {<<r, c>> : r \in 0..(mTableRows - 1), c \in {0, 1}} \cup {<<-1, -1>>}

\* clicked reading brushTexture after the swap instead of before it
clicked_ReadAfterSwap(row, column) ==
    /\ <<row, column>> \in ClickIndexes
    /\ IF column = 0 \/ column = 1
       THEN LET swapped == SwapAt(mBrushHistory, row, 0)
                brushTexture == swapped[row + 1]
            IN  /\ mBrushHistory' = swapped
                /\ mBrushTexture' = brushTexture
                /\ passTextureId' = brushTexture
                /\ mTableRows' = Len(swapped)
                /\ mPanelVisible' = FALSE
       ELSE UNCHANGED <<mBrushHistory, mBrushTexture, passTextureId,
                        mTableRows, mPanelVisible>>
    /\ lastCall' = Call("clicked", NoId, row, column)
    /\ UNCHANGED useLog

clicked(row, column) ==
    /\ <<row, column>> \in ClickIndexes
    /\ IF column = 0 \/ column = 1
       THEN LET brushTexture == mBrushHistory[row + 1]
                swapped == SwapAt(mBrushHistory, row, 0)
            IN  /\ mBrushHistory' = swapped
                /\ mBrushTexture' = brushTexture
                /\ passTextureId' = brushTexture
                /\ mTableRows' = Len(swapped)
                /\ mPanelVisible' = FALSE
       ELSE UNCHANGED <<mBrushHistory, mBrushTexture, passTextureId,
                        mTableRows, mPanelVisible>>
    /\ lastCall' = Call("clicked", NoId, row, column)
    /\ UNCHANGED useLog

showPanel ==
    /\ mTableRows' = Len(mBrushHistory)
    /\ mPanelVisible' = TRUE
    /\ lastCall' = Call("showPanel", NoId, -1, -1)
    /\ UNCHANGED <<mBrushHistory, mBrushTexture, passTextureId, useLog>>

UseStep == \E x \in Ids : updateBrushHistory(x)

ClickStep == \E r \in -1..(HistoryCapacity - 1), c \in -1..1 : clicked(r, c)

NextBrush ==
    \/ UseStep /\ UNCHANGED <<searchVars, windowVars>>
    \/ ClickStep /\ UNCHANGED <<searchVars, windowVars>>
    \/ showPanel /\ UNCHANGED <<searchVars, windowVars>>

SpecBrush == InitBrush /\ [][NextBrush]_vars

-----------------------------------------------------------------------------
(* Only updateBrushHistory runs, and the identifiers it was given are logged *)

LoggedUse(x) ==
    /\ Len(useLog) < MaxUses
    /\ mBrushHistory' = HistoryAfterUse(mBrushHistory, x)
    /\ lastCall' = Call("updateBrushHistory", x, -1, -1)
    /\ useLog' = Append(useLog, x)
    /\ UNCHANGED <<mTableRows, mPanelVisible, mBrushTexture, passTextureId>>

NextUse == \E x \in UseIds : LoggedUse(x) /\ UNCHANGED <<searchVars, windowVars>>

SpecUse == InitBrush /\ [][NextUse]_vars

-----------------------------------------------------------------------------
(* The script settings search of SettingsWindow.  Strings are sequences of  *)
(* characters.                                                              *)

(* Bounds of the search model *)

MaxQueryLen == 3
MaxPages == 2

\* characters a filter caption is typed from
QueryChars == {"a", "B", " ", "\t", ".", "\\"}

\* the (name, search hints) pairs the registered pages are drawn from
PagePool ==
    { [mName |-> <<"A", "b">>, mSearchHints |-> <<>>],
      [mName |-> <<"b", ".">>, mSearchHints |-> <<"a">>],
      [mName |-> <<>>,         mSearchHints |-> <<"B">>],
      [mName |-> <<"a">>,      mSearchHints |-> <<".", "\\">>] }

SeqsUpTo(S, n) == UNION {[1..k -> S] : k \in 0..n}

PageLists == SeqsUpTo(PagePool, MaxPages)

\* value of a character as unsigned char
Code(c) ==
    CASE c = "\t" -> 9
      [] c = "\n" -> 10
      [] c = "\f" -> 12
      [] c = "\r" -> 13
      [] c = " " -> 32
      [] c = "$" -> 36
      [] c = "(" -> 40
      [] c = ")" -> 41
      [] c = "*" -> 42
      [] c = "." -> 46
      [] c = "A" -> 65
      [] c = "B" -> 66
      [] c = "\\" -> 92
      [] c = "^" -> 94
      [] c = "a" -> 97
      [] c = "b" -> 98
      [] c = "|" -> 124

\* std::tolower in the classic locale, as applied by regex_constants::icase
ToLower(c) ==
    CASE c = "A" -> "a"
      [] c = "B" -> "b"
      [] OTHER -> c

\* std::string operator<: lexicographic on the character values
StringLess(s, t) ==
    \E k \in 1..(Len(t)) :
        /\ \A j \in 1..(k - 1) : j <= Len(s) /\ s[j] = t[j]
        /\ \/ k = Len(s) + 1
           \/ k <= Len(s) /\ Code(s[k]) < Code(t[k])

\* a class that holds the blank only
IsSpace_BlankOnly(c) == c = " "

\* the class [:space:]
IsSpace(c) == c \in {" ", "\t", "\n", "\f", "\r"}

\* the set with the backslash taken as an escape inside the brackets
SpecialChars_NoBackslash == {"^", ".", "[", "$", "(", ")", "|", "*", "+", "?", "{"}

\* the set without the dot
SpecialChars_NoDot == {"\\", "^", "[", "$", "(", ")", "|", "*", "+", "?", "{"}

\* the bracket expression of specialChars under the extended grammar, where a
\* backslash inside brackets is an ordinary member of the set
SpecialChars == {"\\", "^", ".", "[", "$", "(", ")", "|", "*", "+", "?", "{"}

RECURSIVE escapeRegex(_)
escapeRegex(str) ==
    IF str = <<>> THEN <<>>
    ELSE (IF Head(str) \in SpecialChars THEN <<"\\", Head(str)>> ELSE <<Head(str)>>)
         \o escapeRegex(Tail(str))

\* the matches of wordsRegex in query, in order: the maximal runs of
\* characters outside [:space:]
RECURSIVE WordsFrom(_, _, _)
WordsFrom(query, i, word) ==
    LET flushed == IF word = <<>> THEN <<>> ELSE <<word>>
    IN  IF i > Len(query) THEN flushed
        ELSE IF IsSpace(query[i]) THEN flushed \o WordsFrom(query, i + 1, <<>>)
        ELSE WordsFrom(query, i + 1, Append(word, query[i]))

Words(query) == WordsFrom(query, 1, <<>>)

\* the words appended without the '|' between them
RECURSIVE JoinEscaped_NoBar(_, _)
JoinEscaped_NoBar(words, k) ==
    IF k > Len(words) THEN <<>>
    ELSE escapeRegex(words[k]) \o JoinEscaped_NoBar(words, k + 1)

RECURSIVE JoinEscaped(_, _)
JoinEscaped(words, k) ==
    IF k > Len(words) THEN <<>>
    ELSE (IF k # 1 THEN <<"|">> ELSE <<>>)
         \o escapeRegex(words[k]) \o JoinEscaped(words, k + 1)

MatchAllText == <<"^", "(", ".", "*", ")", "$">>

\* the text wordSearch hands to the std::regex constructor
SearchRegexText(query) ==
    LET searchRegex == <<"(">> \o JoinEscaped(Words(query), 1) \o <<")">>
    IN  IF searchRegex = <<"(", ")">> THEN MatchAllText ELSE searchRegex

-----------------------------------------------------------------------------
(* std::regex with regex_constants::extended | icase, for the patterns that *)
(* wordSearch can build: a group of alternatives of characters, escaped     *)
(* characters, '.' and '*', optionally between '^' and '$'.                 *)

Tok(t, c) == [t |-> t, c |-> c]

RECURSIVE ScanFrom(_, _)
ScanFrom(p, i) ==
    IF i > Len(p) THEN <<>>
    ELSE IF p[i] = "\\"
         THEN IF i = Len(p) THEN <<Tok("err", "")>>
              ELSE <<Tok("chr", p[i + 1])>> \o ScanFrom(p, i + 2)
    ELSE LET c == p[i]
             tok == CASE c = "(" -> Tok("open", "")
                      [] c = ")" -> Tok("close", "")
                      [] c = "|" -> Tok("or", "")
                      [] c = "." -> Tok("any", "")
                      [] c = "*" -> Tok("star", "")
                      [] c = "^" -> Tok("bol", "")
                      [] c = "$" -> Tok("eol", "")
                      [] OTHER -> Tok("chr", c)
         IN  <<tok>> \o ScanFrom(p, i + 1)

\* the alternatives of a token sequence: cut at each "or"
RECURSIVE SplitAlternatives(_, _, _)
SplitAlternatives(toks, i, alt) ==
    IF i > Len(toks) THEN <<alt>>
    ELSE IF toks[i].t = "or" THEN <<alt>> \o SplitAlternatives(toks, i + 1, <<>>)
    ELSE SplitAlternatives(toks, i + 1, Append(alt, toks[i]))

\* the atoms of one alternative: each character or '.', starred when a '*'
\* follows it
RECURSIVE AtomsFrom(_, _)
AtomsFrom(alt, i) ==
    IF i > Len(alt) THEN <<>>
    ELSE IF i < Len(alt) /\ alt[i + 1].t = "star"
         THEN <<[t |-> alt[i].t, c |-> alt[i].c, star |-> TRUE]>>
              \o AtomsFrom(alt, i + 2)
    ELSE <<[t |-> alt[i].t, c |-> alt[i].c, star |-> FALSE]>>
         \o AtomsFrom(alt, i + 1)

RegexCompile(p) ==
    LET toks == ScanFrom(p, 1)
        bol == Len(toks) >= 1 /\ toks[1].t = "bol"
        eol == Len(toks) >= 1 /\ toks[Len(toks)].t = "eol"
        body == SubSeq(toks, IF bol THEN 2 ELSE 1,
                       IF eol THEN Len(toks) - 1 ELSE Len(toks))
        inner == SubSeq(body, 2, Len(body) - 1)
        wellFormed ==
            /\ Len(body) >= 2
            /\ body[1].t = "open"
            /\ body[Len(body)].t = "close"
            /\ \A k \in 1..Len(inner) :
                /\ inner[k].t \in {"chr", "any", "star", "or"}
                /\ inner[k].t = "star" => k > 1 /\ inner[k - 1].t \in {"chr", "any"}
        alts == SplitAlternatives(inner, 1, <<>>)
    IN  IF wellFormed
        THEN [valid |-> TRUE, bol |-> bol, eol |-> eol, marks |-> 1,
              alts |-> [k \in 1..Len(alts) |-> AtomsFrom(alts[k], 1)]]
        ELSE [valid |-> FALSE, bol |-> FALSE, eol |-> FALSE, marks |-> 0,
              alts |-> <<>>]

AtomMatches(atom, ch) ==
    atom.t = "any" \/ ToLower(atom.c) = ToLower(ch)

\* the positions where a match of atoms[k..] that starts at pos can end
RECURSIVE MatchEnds(_, _, _, _)
MatchEnds(atoms, k, text, pos) ==
    IF k > Len(atoms) THEN {pos}
    ELSE IF atoms[k].star
         THEN UNION { MatchEnds(atoms, k + 1, text, pos + n) :
                      n \in { m \in 0..(Len(text) - pos) :
                                \A j \in 1..m : AtomMatches(atoms[k], text[pos + j]) } }
    ELSE IF pos < Len(text) /\ AtomMatches(atoms[k], text[pos + 1])
         THEN MatchEnds(atoms, k + 1, text, pos + 1)
    ELSE {}

\* std::regex_search(text, matches, regex) finds a match
RegexSearch(regex, text) ==
    \E start \in (IF regex.bol THEN {0} ELSE 0..Len(text)) :
        \E a \in 1..Len(regex.alts) :
            \E end \in MatchEnds(regex.alts[a], 1, text, start) :
                regex.eol => end = Len(text)

\* wordSearch(query): the compiled pattern
wordSearch(query) == RegexCompile(SearchRegexText(query))

\* a weight that counts the alternatives found in the text
weightedSearch_CountAlts(regex, text) ==
    Cardinality({a \in 1..Len(regex.alts) :
        \E start \in (IF regex.bol THEN {0} ELSE 0..Len(text)) :
            \E end \in MatchEnds(regex.alts[a], 1, text, start) :
                regex.eol => end = Len(text)})

\* matches.size(): the whole match and each marked group, or 0 for no match
weightedSearch(regex, text) ==
    IF RegexSearch(regex, text) THEN regex.marks + 1 ELSE 0

-----------------------------------------------------------------------------
(* SettingsWindow::renderScriptSettings *)

\* the page stored with a 1-based index
WeightedPage_IndexOff(i, page, regex) ==
    [mIndex |-> i + 1,
     mName |-> page.mName,
     mNameWeight |-> 0 - weightedSearch(regex, page.mName),
     mHintWeight |-> 0 - weightedSearch(regex, page.mSearchHints)]

WeightedPage(i, page, regex) ==
    [mIndex |-> i,
     mName |-> page.mName,
     mNameWeight |-> 0 - weightedSearch(regex, page.mName),
     mHintWeight |-> 0 - weightedSearch(regex, page.mSearchHints)]

\* operator< with mName left out of tie()
WeightedPageLess_NoName(l, r) ==
    \/ l.mNameWeight < r.mNameWeight
    \/ /\ l.mNameWeight = r.mNameWeight
       /\ l.mHintWeight < r.mHintWeight

\* operator< with the two weights of tie() in the other order
WeightedPageLess_HintFirst(l, r) ==
    \/ l.mHintWeight < r.mHintWeight
    \/ /\ l.mHintWeight = r.mHintWeight
       /\ \/ l.mNameWeight < r.mNameWeight
          \/ /\ l.mNameWeight = r.mNameWeight
             /\ StringLess(l.mName, r.mName)

\* operator< with mName ahead of the weights in tie()
WeightedPageLess_NameFirst(l, r) ==
    \/ StringLess(l.mName, r.mName)
    \/ /\ l.mName = r.mName
       /\ \/ l.mNameWeight < r.mNameWeight
          \/ /\ l.mNameWeight = r.mNameWeight
             /\ l.mHintWeight < r.mHintWeight

\* WeightedPage::operator<: tie() compared lexicographically
WeightedPageLess(l, r) ==
    \/ l.mNameWeight < r.mNameWeight
    \/ /\ l.mNameWeight = r.mNameWeight
       /\ \/ l.mHintWeight < r.mHintWeight
          \/ /\ l.mHintWeight = r.mHintWeight
             /\ StringLess(l.mName, r.mName)

\* the orders std::sort may leave the vector in: every arrangement in which
\* no element is less than an earlier one (equal elements in any order)
SortedOrders(v) ==
    { w \in [1..Len(v) -> {v[k] : k \in 1..Len(v)}] :
        /\ \A k \in 1..Len(v) : \E j \in 1..Len(v) : w[j] = v[k]
        /\ \A i, j \in 1..Len(v) : i < j => ~WeightedPageLess(w[j], w[i]) }

\* the loop over the pages: the weights of every page, in page order
RECURSIVE WeighFrom(_, _, _)
WeighFrom(ps, regex, i) ==
    IF i >= Len(ps) THEN <<>>
    ELSE <<WeightedPage(i, ps[i + 1], regex)>> \o WeighFrom(ps, regex, i + 1)

\* the push_back test looking at the name weight only
Kept_NameOnly(wp) == (0 - wp.mNameWeight) > 0

\* the test that guards weightedPages.push_back
Kept(wp) == ((0 - wp.mNameWeight) + (0 - wp.mHintWeight)) > 0

\* a render that adds its items to those of the list (no removeAllItems)
Rendered_Accumulate(regex, ps, list, weights) ==
    \E weighed \in {WeighFrom(ps, regex, 0)} :
        \E sorted \in SortedOrders(SelectSeq(weighed, Kept)) :
            /\ list = mScriptList \o [k \in 1..Len(sorted) |->
                         [name |-> sorted[k].mName, data |-> sorted[k].mIndex]]
            /\ weights = [k \in 1..Len(weighed) |->
                            [name |-> 0 - weighed[k].mNameWeight,
                             hint |-> 0 - weighed[k].mHintWeight]]

\* the items and the weights left by a render with the compiled pattern regex
Rendered(regex, ps, list, weights) ==
    \E weighed \in {WeighFrom(ps, regex, 0)} :
        \E sorted \in SortedOrders(SelectSeq(weighed, Kept)) :
            /\ list = [k \in 1..Len(sorted) |->
                         [name |-> sorted[k].mName, data |-> sorted[k].mIndex]]
            /\ weights = [k \in 1..Len(weighed) |->
                            [name |-> 0 - weighed[k].mNameWeight,
                             hint |-> 0 - weighed[k].mHintWeight]]

\* wordSearch throws std::regex_error after removeAllItems has run
RenderThrows ==
    /\ mScriptList' = <<>>
    /\ pageWeights' = <<>>
    /\ regexError' = TRUE

renderScriptSettings ==
    /\ \E regex \in {wordSearch(mScriptFilter)} :
        IF regex.valid
        THEN /\ Rendered(regex, pages, mScriptList', pageWeights')
             /\ regexError' = FALSE
        ELSE RenderThrows
    /\ mRendered' = TRUE
    /\ attachedPage' = mCurrentPage
    /\ UNCHANGED <<pages, mScriptFilter, mCurrentPage>>

\* the edit box has changed its caption to text and fires eventEditTextChange
onScriptFilterChange(text) ==
    /\ mScriptFilter' = text
    /\ \E regex \in {wordSearch(text)} :
        IF regex.valid
        THEN /\ Rendered(regex, pages, mScriptList', pageWeights')
             /\ regexError' = FALSE
        ELSE RenderThrows
    /\ mRendered' = TRUE
    /\ attachedPage' = mCurrentPage
    /\ UNCHANGED <<pages, mCurrentPage>>

InitSearch ==
    /\ BrushConstructed
    /\ SettingsConstructed
    /\ WindowDefaults
    /\ pages \in PageLists

\* a keystroke in the filter box: a character typed at the end of the caption
TypeStep ==
    \E c \in QueryChars :
        /\ Len(mScriptFilter) < MaxQueryLen
        /\ onScriptFilterChange(Append(mScriptFilter, c))

\* a keystroke in the filter box: the last character of the caption erased
EraseStep ==
    /\ mScriptFilter # <<>>
    /\ onScriptFilterChange(SubSeq(mScriptFilter, 1, Len(mScriptFilter) - 1))

NextSearch ==
    \/ renderScriptSettings /\ UNCHANGED <<brushVars, panelVars>>
    \/ TypeStep /\ UNCHANGED <<brushVars, panelVars>>
    \/ EraseStep /\ UNCHANGED <<brushVars, panelVars>>

SpecSearch == InitSearch /\ [][NextSearch]_vars

-----------------------------------------------------------------------------
(* Selection in the script list *)

\* captions of the filter box while entries of the list are selected
PageFilters == {<<>>, <<"a">>, <<"B">>, <<".">>}

\* the handler taking the list position for the page index
onScriptListSelection_ListPosition(index) ==
    /\ IF index >= 0 /\ SizeLess(index, Len(mScriptList))
       THEN /\ mCurrentPage' = index
            /\ attachedPage' = index
       ELSE /\ mCurrentPage' = -1
            /\ attachedPage' = -1
    /\ windowCall' = WindowCall("onScriptListSelection", index, FALSE, FALSE)
    /\ UNCHANGED <<searchVars, videoVars, inputVars>>

\* eventListMouseItemActivate with the list position index
onScriptListSelection(index) ==
    /\ IF SizeLess(index, Len(mScriptList))
       THEN /\ mCurrentPage' = mScriptList[index + 1].data
            /\ attachedPage' = mScriptList[index + 1].data
       ELSE /\ mCurrentPage' = -1
            /\ attachedPage' = -1
    /\ windowCall' = WindowCall("onScriptListSelection", index, FALSE, FALSE)
    /\ UNCHANGED <<searchVars, videoVars, inputVars>>

InitPage ==
    /\ BrushConstructed
    /\ SettingsConstructed
    /\ WindowDefaults
    /\ pages \in PageLists

FilterStep ==
    /\ \E text \in PageFilters : onScriptFilterChange(text)
    /\ windowCall' = WindowCall("onScriptFilterChange", ITEM_NONE, FALSE, FALSE)
    /\ UNCHANGED <<videoVars, inputVars>>

RenderStep ==
    /\ renderScriptSettings
    /\ windowCall' = WindowCall("renderScriptSettings", ITEM_NONE, FALSE, FALSE)
    /\ UNCHANGED <<videoVars, inputVars>>

SelectStep == \E index \in (0..MaxPages) \cup {ITEM_NONE} : onScriptListSelection(index)

NextPage ==
    \/ FilterStep /\ UNCHANGED brushVars
    \/ RenderStep /\ UNCHANGED brushVars
    \/ SelectStep /\ UNCHANGED brushVars

SpecPage == InitPage /\ [][NextPage]_vars

-----------------------------------------------------------------------------
(* The video and input tabs.  The confirmation dialog is modal: while it is *)
(* open only its two buttons take events.                                   *)

\* the handler writing the resolution as soon as an item is selected
onResolutionSelected_WriteAtOnce(index) ==
    /\ ~dialogOpen
    /\ mResolutionIndex' = index
    /\ dialogOpen' = (index # ITEM_NONE)
    /\ IF index # ITEM_NONE
       THEN /\ resolutionX' = parseResolution(mResolutionList[index + 1])[1]
            /\ resolutionY' = parseResolution(mResolutionList[index + 1])[2]
       ELSE UNCHANGED <<resolutionX, resolutionY>>
    /\ windowCall' = WindowCall("onResolutionSelected", index, FALSE, FALSE)
    /\ UNCHANGED <<mResolutionList, windowMode,
                   mWindowModeIndex, mWindowBorderEnabled, inputVars>>

\* eventListChangePosition: the list has made index its selected item
onResolutionSelected(index) ==
    /\ ~dialogOpen
    /\ mResolutionIndex' = index
    /\ dialogOpen' = (index # ITEM_NONE)
    /\ windowCall' = WindowCall("onResolutionSelected", index, FALSE, FALSE)
    /\ UNCHANGED <<mResolutionList, resolutionX, resolutionY, windowMode,
                   mWindowModeIndex, mWindowBorderEnabled, inputVars>>

\* eventOkClicked of the confirmation dialog
onResolutionAccept ==
    /\ dialogOpen
    /\ \E res \in {parseResolution(mResolutionList[mResolutionIndex + 1])} :
        /\ resolutionX' = res[1]
        /\ resolutionY' = res[2]
    /\ dialogOpen' = FALSE
    /\ windowCall' = WindowCall("onResolutionAccept", ITEM_NONE, FALSE, TRUE)
    /\ UNCHANGED <<mResolutionList, mResolutionIndex, windowMode,
                   mWindowModeIndex, mWindowBorderEnabled, inputVars>>

\* eventCancelClicked of the confirmation dialog
onResolutionCancel ==
    /\ dialogOpen
    /\ mResolutionIndex' = highlightCurrentResolution(mResolutionList,
                               resolutionX, resolutionY)
    /\ dialogOpen' = FALSE
    /\ windowCall' = WindowCall("onResolutionCancel", ITEM_NONE, FALSE, FALSE)
    /\ UNCHANGED <<mResolutionList, resolutionX, resolutionY, windowMode,
                   mWindowModeIndex, mWindowBorderEnabled, inputVars>>

\* eventComboChangePosition: the combo box has made pos its selected item
onWindowModeChanged(pos) ==
    /\ ~dialogOpen
    /\ mWindowModeIndex' = pos
    /\ windowMode' = (IF pos = ITEM_NONE THEN windowMode ELSE pos)
    /\ windowCall' = WindowCall("onWindowModeChanged", pos, FALSE, pos # ITEM_NONE)
    /\ UNCHANGED <<mResolutionList, mResolutionIndex, resolutionX, resolutionY,
                   mWindowBorderEnabled, dialogOpen, inputVars>>

\* the bindings updateControlsBox lists
ControlsBoxOf(keyboardMode) == IF keyboardMode THEN "keyboard" ELSE "controller"

\* the handler without its early return
onKeyboardSwitchClicked_NoReturn ==
    /\ ~dialogOpen
    /\ mKeyboardMode' = TRUE
    /\ mKeyboardSwitch' = TRUE
    /\ mControllerSwitch' = FALSE
    /\ mControlsBox' = ControlsBoxOf(TRUE)
    /\ windowCall' = WindowCall("onKeyboardSwitchClicked", ITEM_NONE, TRUE, FALSE)
    /\ UNCHANGED videoVars

onKeyboardSwitchClicked ==
    /\ ~dialogOpen
    /\ IF mKeyboardMode
       THEN /\ UNCHANGED inputVars
            /\ windowCall' = WindowCall("onKeyboardSwitchClicked", ITEM_NONE, FALSE, FALSE)
       ELSE /\ mKeyboardMode' = TRUE
            /\ mKeyboardSwitch' = TRUE
            /\ mControllerSwitch' = FALSE
            /\ mControlsBox' = ControlsBoxOf(TRUE)
            /\ windowCall' = WindowCall("onKeyboardSwitchClicked", ITEM_NONE, TRUE, FALSE)
    /\ UNCHANGED videoVars

onControllerSwitchClicked ==
    /\ ~dialogOpen
    /\ IF ~mKeyboardMode
       THEN /\ UNCHANGED inputVars
            /\ windowCall' = WindowCall("onControllerSwitchClicked", ITEM_NONE, FALSE, FALSE)
       ELSE /\ mKeyboardMode' = FALSE
            /\ mKeyboardSwitch' = FALSE
            /\ mControllerSwitch' = TRUE
            /\ mControlsBox' = ControlsBoxOf(FALSE)
            /\ windowCall' = WindowCall("onControllerSwitchClicked", ITEM_NONE, TRUE, FALSE)
    /\ UNCHANGED videoVars

\* onOpen: highlightCurrentResolution, updateControlsBox,
\* updateWindowModeSettings and renderScriptSettings, in this order
onOpen ==
    /\ ~dialogOpen
    /\ \E selected \in {highlightCurrentResolution(mResolutionList,
                               resolutionX, resolutionY)} :
        /\ mResolutionIndex' = selected
        /\ \E res \in {updateWindowModeSettings(mResolutionList, selected,
                           resolutionX, resolutionY, windowMode)} :
            /\ resolutionX' = res[1]
            /\ resolutionY' = res[2]
    /\ mControlsBox' = ControlsBoxOf(mKeyboardMode)
    /\ mWindowModeIndex' = WindowModeIndex(windowMode)
    /\ mWindowBorderEnabled' = (IF IsFullscreenIndex(WindowModeIndex(windowMode))
                                THEN FALSE ELSE mWindowBorderEnabled)
    /\ renderScriptSettings
    /\ windowCall' = WindowCall("onOpen", ITEM_NONE, TRUE, FALSE)
    /\ UNCHANGED <<mResolutionList, windowMode, dialogOpen, mKeyboardMode,
                   mKeyboardSwitch, mControllerSwitch>>

InitPanel ==
    /\ BrushConstructed
    /\ SettingsConstructed
    /\ pages = <<>>
    /\ \E modes \in DisplayModes, res \in StoredResolutions, mode \in StoredWindowModes :
        VideoConstructed(modes, res[1], res[2], mode)
    /\ InputConstructed
    /\ PageConstructed
    /\ windowCall = WindowCall("constructor", ITEM_NONE, FALSE, FALSE)

ResolutionStep ==
    \E index \in (0..(Len(mResolutionList) - 1)) \cup {ITEM_NONE} :
        onResolutionSelected(index)

WindowModeStep == \E pos \in (0..Windowed) \cup {ITEM_NONE} : onWindowModeChanged(pos)

NextPanel ==
    \/ onOpen /\ UNCHANGED brushVars
    \/ ResolutionStep /\ UNCHANGED <<brushVars, searchVars, pageVars>>
    \/ onResolutionAccept /\ UNCHANGED <<brushVars, searchVars, pageVars>>
    \/ onResolutionCancel /\ UNCHANGED <<brushVars, searchVars, pageVars>>
    \/ WindowModeStep /\ UNCHANGED <<brushVars, searchVars, pageVars>>
    \/ onKeyboardSwitchClicked /\ UNCHANGED <<brushVars, searchVars, pageVars>>
    \/ onControllerSwitchClicked /\ UNCHANGED <<brushVars, searchVars, pageVars>>

SpecPanel == InitPanel /\ [][NextPanel]_vars

-----------------------------------------------------------------------------
(* Properties of the brush history *)

IsUse(call) == call.op = "updateBrushHistory"

IsSwap(call) == call.op = "clicked" /\ call.column \in {0, 1}

Distinct(v) == \A i, j \in 1..Len(v) : i # j => v[i] # v[j]

Occurrences(v, x) == Cardinality({k \in 1..Len(v) : v[k] = x})

FirstN(v, n) == SubSeq(v, 1, IF Len(v) < n THEN Len(v) ELSE n)

Reversed(v) == [k \in 1..Len(v) |-> v[Len(v) + 1 - k]]

\* C1: after any sequence of updateBrushHistory and clicked calls the brush
\* history never holds more than 5 entries.
C1_AtMostFive == Len(mBrushHistory) <= 5

\* an insertion into a full history has evicted the seed
C1_Witness ==
    /\ IsUse(lastCall)
    /\ Len(mBrushHistory) = 5
    /\ \A k \in 1..5 : mBrushHistory[k] # Seed

\* C2: right after updateBrushHistory(x) position 0 holds x, and right after
\* a click on a valid row p position 0 holds the entry that was at p.
C2_MostRecentAtFront ==
    [][ /\ IsUse(lastCall') => mBrushHistory'[1] = lastCall'.id
        /\ IsSwap(lastCall') => mBrushHistory'[1] = mBrushHistory[lastCall'.row + 1]
      ]_vars

\* a click on the second row brought a different identifier to the front
C2_Witness ==
    /\ IsSwap(lastCall)
    /\ lastCall.row = 1
    /\ mBrushHistory[1] # mBrushHistory[2]

\* C3: updateBrushHistory(x) on a list L yields x followed by the entries of L
\* in their previous order, and when that is longer than 5 only the last
\* entry is dropped.
C3_UseInsertsAtFront ==
    [][ IsUse(lastCall') =>
            LET L == mBrushHistory
                N == mBrushHistory'
            IN  /\ Len(N) = (IF Len(L) + 1 > 5 THEN 5 ELSE Len(L) + 1)
                /\ N[1] = lastCall'.id
                /\ \A k \in 2..Len(N) : N[k] = L[k - 1]
      ]_vars

\* the seed was inserted again into a full history that had lost it
C3_Witness ==
    /\ IsUse(lastCall)
    /\ lastCall.id = Seed
    /\ Len(mBrushHistory) = 5
    /\ \A k \in 2..5 : mBrushHistory[k] # Seed

\* C4: after the calls updateBrushHistory(u1), ..., updateBrushHistory(uk) on
\* the constructed history the list is [uk, ..., u1, seed] cut to its first 5
\* entries.
C4_UsesInReverse ==
    mBrushHistory = FirstN(Reversed(useLog) \o <<Seed>>, 5)

\* use(A), ..., use(F) has given [F,E,D,C,B]
C4_Witness ==
    /\ useLog = <<"A", "B", "C", "D", "E", "F">>
    /\ mBrushHistory = <<"F", "E", "D", "C", "B">>

\* C5: a click on a valid row p exchanges the entries at positions p and 0,
\* leaves every other position unchanged and keeps the length and the
\* multiset of entries.
C5_SwapExchanges ==
    [][ IsSwap(lastCall') =>
            LET L == mBrushHistory
                N == mBrushHistory'
                p == lastCall'.row
            IN  /\ Len(N) = Len(L)
                /\ N[1] = L[p + 1]
                /\ N[p + 1] = L[1]
                /\ \A k \in 1..Len(L) : (k # 1 /\ k # p + 1) => N[k] = L[k]
                /\ \A x \in Ids : Occurrences(N, x) = Occurrences(L, x)
      ]_vars

\* a click on the last row of a full history exchanged two different entries
C5_Witness ==
    /\ IsSwap(lastCall)
    /\ lastCall.row = 4
    /\ Len(mBrushHistory) = 5
    /\ mBrushHistory[1] # mBrushHistory[5]

\* C6 as stated: a click on a valid row p moves the entry at p to position 0
\* and shifts the entries formerly at 0..p-1 down by one.
C6_MoveToFront ==
    [][ IsSwap(lastCall') =>
            LET L == mBrushHistory
                N == mBrushHistory'
                p == lastCall'.row
            IN  /\ Len(N) = Len(L)
                /\ N[1] = L[p + 1]
                /\ \A k \in 1..p : N[k + 1] = L[k]
                /\ \A k \in (p + 2)..Len(L) : N[k] = L[k]
      ]_vars

\* C6 amended: a click on a valid row p puts the entry at p at position 0 and
\* the entry formerly at 0 at position p; the entries formerly at 1..p-1 keep
\* their positions, so the result is the move-to-front order only when those
\* entries and the former front entry are all equal.
C6_FrontGoesToRow ==
    [][ IsSwap(lastCall') =>
            LET L == mBrushHistory
                N == mBrushHistory'
                p == lastCall'.row
                movedToFront ==
                    [k \in 1..Len(L) |->
                        IF k = 1 THEN L[p + 1]
                        ELSE IF k <= p + 1 THEN L[k - 1] ELSE L[k]]
            IN  /\ Len(N) = Len(L)
                /\ N[1] = L[p + 1]
                /\ p >= 1 => N[p + 1] = L[1]
                /\ \A k \in 2..p : N[k] = L[k]
                /\ (N = movedToFront) <=> (\A k \in 2..p : L[k] = L[1])
      ]_vars

\* a click on the third row of a list starting with three different entries
C6_Witness ==
    /\ IsSwap(lastCall)
    /\ lastCall.row = 2
    /\ Distinct(SubSeq(mBrushHistory, 1, 3))

\* C21: updateBrushHistory can run with every identifier in every state,
\* and it puts the identifier at the front while each earlier occurrence
\* that is not evicted stays in the list, one position further back.
C21_UseKeepsDuplicates ==
    [][ /\ \A x \in Ids : ENABLED updateBrushHistory(x)
        /\ IsUse(lastCall') =>
              LET L == mBrushHistory
                  N == mBrushHistory'
                  x == lastCall'.id
              IN  /\ N[1] = x
                  /\ Occurrences(N, x) = Occurrences(FirstN(L, 4), x) + 1
                  /\ \A k \in 1..Len(L) :
                        (L[k] = x /\ k < 5) => (k + 1 <= Len(N) /\ N[k + 1] = x)
      ]_vars

\* an identifier was inserted that the list held already: it stands at the
\* front and at its earlier place, moved back by one
C21_Witness ==
    /\ IsUse(lastCall)
    /\ mBrushHistory[1] = lastCall.id
    /\ Len(mBrushHistory) >= 3
    /\ mBrushHistory[3] = lastCall.id
    /\ mBrushHistory[2] # lastCall.id

\* C22: the brush history is never empty: its length is between 1 and 5 in
\* every state, so the entry at position 0 exists.
C22_NeverEmpty ==
    /\ Len(mBrushHistory) >= 1
    /\ Len(mBrushHistory) <= 5
    /\ 1 \in DOMAIN mBrushHistory

\* the only row of a history of one entry was clicked
C22_Witness ==
    /\ IsSwap(lastCall)
    /\ lastCall.row = 0
    /\ Len(mBrushHistory) = 1

\* C23: after a click on a row in column 0 or 1 the texture of the brush
\* window, the identifier emitted by passTextureId and the history entry at
\* position 0 are the entry that was at the clicked row; a click in no such
\* column changes none of them, nor the table and the panel.
C23_ClickSelectsRow ==
    [][ /\ IsSwap(lastCall') =>
              /\ mBrushTexture' = mBrushHistory[lastCall'.row + 1]
              /\ passTextureId' = mBrushHistory[lastCall'.row + 1]
              /\ mBrushHistory'[1] = mBrushHistory[lastCall'.row + 1]
        /\ (lastCall'.op = "clicked" /\ ~IsSwap(lastCall')) =>
              UNCHANGED <<mBrushHistory, mBrushTexture, passTextureId,
                          mTableRows, mPanelVisible>>
      ]_vars

\* a click on the third row made an entry the texture that differs from the
\* former front entry, which now stands in the third row
C23_Witness ==
    /\ IsSwap(lastCall)
    /\ lastCall.row = 2
    /\ mBrushTexture = mBrushHistory[1]
    /\ passTextureId = mBrushHistory[1]
    /\ mBrushHistory[3] # mBrushHistory[1]

-----------------------------------------------------------------------------
(* Properties of the script settings search *)

\* the pages of the list, by their 0-based index
Listed == {mScriptList[k].data : k \in 1..Len(mScriptList)}

NameScore(item) == pageWeights[item.data + 1].name

HintScore(item) == pageWeights[item.data + 1].hint

OnlyWhitespace(text) == \A k \in 1..Len(text) : text[k] \in {" ", "\t"}

\* C7: with an empty query every page of a non-empty page set is listed,
\* all pages have the same scores, and the list is in ascending name order.
C7_EmptyQueryListsAll ==
    (mRendered /\ mScriptFilter = <<>> /\ pages # <<>>) =>
        /\ ~regexError
        /\ Len(mScriptList) = Len(pages)
        /\ Listed = 0..(Len(pages) - 1)
        /\ \A k \in 1..Len(mScriptList) :
              mScriptList[k].name = pages[mScriptList[k].data + 1].mName
        /\ \A i, j \in 1..Len(pages) : pageWeights[i] = pageWeights[j]
        /\ \A k \in 1..(Len(mScriptList) - 1) :
              ~StringLess(mScriptList[k + 1].name, mScriptList[k].name)

\* an empty query listed a page with an empty name before the page that is
\* registered ahead of it
C7_Witness ==
    /\ mRendered
    /\ mScriptFilter = <<>>
    /\ Len(mScriptList) = 2
    /\ mScriptList[1].name = <<>>
    /\ mScriptList[1].data = 1
    /\ \E i \in 1..2 : pages[i].mSearchHints = <<>>

\* C8: a query of whitespace characters only compiles to the pattern of the
\* empty query and leaves a list and scores that the empty query can leave.
C8_WhitespaceIsEmpty ==
    (mRendered /\ mScriptFilter # <<>> /\ OnlyWhitespace(mScriptFilter)) =>
        /\ ~regexError
        /\ wordSearch(mScriptFilter) = wordSearch(<<>>)
        /\ Rendered(wordSearch(<<>>), pages, mScriptList, pageWeights)

\* a query of a blank, a tab and a blank was rendered over two pages
C8_Witness ==
    /\ mRendered
    /\ mScriptFilter = <<" ", "\t", " ">>
    /\ Len(pages) = 2
    /\ Len(mScriptList) = 2

\* C9: a page is listed exactly when its name score plus its hint score is
\* not zero, which is exactly when the pattern is found in its name or in
\* its search hints.
C9_ListedIffScored ==
    (mRendered /\ ~regexError) =>
        /\ Len(pageWeights) = Len(pages)
        /\ \A i \in 1..Len(pages) :
              /\ ((i - 1) \in Listed)
                    <=> (pageWeights[i].name + pageWeights[i].hint # 0)
              /\ ((i - 1) \in Listed)
                    <=> \/ RegexSearch(wordSearch(mScriptFilter), pages[i].mName)
                        \/ RegexSearch(wordSearch(mScriptFilter), pages[i].mSearchHints)

\* of two pages one was listed through its search hints alone and the other,
\* matched in neither field, was dropped
C9_Witness ==
    /\ mRendered
    /\ ~regexError
    /\ Len(pages) = 2
    /\ Len(mScriptList) = 1
    /\ NameScore(mScriptList[1]) = 0
    /\ HintScore(mScriptList[1]) > 0

\* C10: of two adjacent list entries the earlier one has the higher name
\* score, or the same name score and the higher hint score, or the same
\* scores and a name that is not greater.
C10_ListSorted ==
    (mRendered /\ ~regexError) =>
        \A k \in 1..(Len(mScriptList) - 1) :
            LET e == mScriptList[k]
                f == mScriptList[k + 1]
            IN  \/ NameScore(e) > NameScore(f)
                \/ /\ NameScore(e) = NameScore(f)
                   /\ HintScore(e) > HintScore(f)
                \/ /\ NameScore(e) = NameScore(f)
                   /\ HintScore(e) = HintScore(f)
                   /\ ~StringLess(f.name, e.name)

\* the hint score put a page first whose name is the greater one
C10_Witness ==
    /\ mRendered
    /\ ~regexError
    /\ Len(mScriptList) = 2
    /\ NameScore(mScriptList[1]) = NameScore(mScriptList[2])
    /\ HintScore(mScriptList[1]) > HintScore(mScriptList[2])
    /\ StringLess(mScriptList[2].name, mScriptList[1].name)

\* the query tokens: the maximal runs of characters that are not whitespace
Tokens(query) ==
    { SubSeq(query, i, j) : <<i, j>> \in
        { ij \in (1..Len(query)) \X (1..Len(query)) :
            /\ ij[1] <= ij[2]
            /\ \A k \in ij[1]..ij[2] : query[k] \notin {" ", "\t"}
            /\ ij[1] = 1 \/ query[ij[1] - 1] \in {" ", "\t"}
            /\ ij[2] = Len(query) \/ query[ij[2] + 1] \in {" ", "\t"} } }

\* the same character up to letter case
SameChar(c, d) == c = d \/ {c, d} = {"a", "A"} \/ {c, d} = {"b", "B"}

\* token occurs in text as a contiguous substring, letter case ignored
Occurs(token, text) ==
    \E start \in 0..(Len(text) - Len(token)) :
        \A k \in 1..Len(token) : SameChar(token[k], text[start + k])

\* the number of query tokens that occur in text
MatchedTokens(query, text) ==
    Cardinality({token \in Tokens(query) : Occurs(token, text)})

NameMatches(item) == RegexSearch(wordSearch(mScriptFilter), item.name)

\* C11: every list entry whose name matches the query stands before every
\* entry whose name does not match (listed through its hints only),
\* whatever the names are.
C11_NameMatchesFirst ==
    (mRendered /\ ~regexError) =>
        \A k, l \in 1..Len(mScriptList) :
            (NameMatches(mScriptList[k]) /\ ~NameMatches(mScriptList[l]))
                => k < l

\* a page matched in its name stands before a page matched in its hints only
\* whose name is the smaller one
C11_Witness ==
    /\ mRendered
    /\ ~regexError
    /\ Tokens(mScriptFilter) # {}
    /\ Len(mScriptList) = 2
    /\ NameMatches(mScriptList[1])
    /\ ~NameMatches(mScriptList[2])
    /\ HintScore(mScriptList[2]) > 0
    /\ StringLess(mScriptList[2].name, mScriptList[1].name)

\* C12 as stated: for a query with at least one token the name score and the
\* hint score of every page are the numbers of query tokens matched in the
\* name and in the search hints.
C12_ScoresCountTokens ==
    (mRendered /\ ~regexError /\ Tokens(mScriptFilter) # {}) =>
        \A i \in 1..Len(pages) :
            /\ pageWeights[i].name = MatchedTokens(mScriptFilter, pages[i].mName)
            /\ pageWeights[i].hint = MatchedTokens(mScriptFilter, pages[i].mSearchHints)

\* C13: every render finds a pattern that compiles: std::regex_error is
\* never thrown, whatever characters the query holds.
C13_PatternCompiles ==
    mRendered => (~regexError /\ wordSearch(mScriptFilter).valid)

\* the query of a dot and a backslash was compiled and found in the hints of
\* a page
C13_Witness ==
    /\ mRendered
    /\ ~regexError
    /\ mScriptFilter = <<".", "\\">>
    /\ Len(mScriptList) = 1
    /\ NameScore(mScriptList[1]) = 0
    /\ HintScore(mScriptList[1]) > 0

\* list and weights are a ranking of the pages ps for the query filter
IsRanking(filter, ps, list, weights) ==
    LET regex == wordSearch(filter)
        kept == {i \in 1..Len(ps) :
                    \/ RegexSearch(regex, ps[i].mName)
                    \/ RegexSearch(regex, ps[i].mSearchHints)}
    IN  /\ Len(weights) = Len(ps)
        /\ \A i \in 1..Len(ps) :
              /\ weights[i].name = weightedSearch(regex, ps[i].mName)
              /\ weights[i].hint = weightedSearch(regex, ps[i].mSearchHints)
        /\ Len(list) = Cardinality(kept)
        /\ {list[k] : k \in 1..Len(list)}
              = {[name |-> ps[i].mName, data |-> i - 1] : i \in kept}
        /\ \A k, l \in 1..Len(list) :
              k < l => ~WeightedPageLess(
                  [mName |-> list[l].name,
                   mNameWeight |-> 0 - weights[list[l].data + 1].name,
                   mHintWeight |-> 0 - weights[list[l].data + 1].hint],
                  [mName |-> list[k].name,
                   mNameWeight |-> 0 - weights[list[k].data + 1].name,
                   mHintWeight |-> 0 - weights[list[k].data + 1].hint])

NameSeq(list) == [k \in 1..Len(list) |-> list[k].name]

\* C14: every step leaves a list that is the ranking of the current query
\* over the current pages, with no entry of an earlier query, and a render
\* with the query and the pages unchanged leaves the same entries, names in
\* the same order, and the same scores.
C14_NoStateBetweenRenders ==
    [][ /\ ~regexError'
        /\ IsRanking(mScriptFilter', pages', mScriptList', pageWeights')
        /\ (mRendered /\ mScriptFilter' = mScriptFilter /\ pages' = pages) =>
              /\ NameSeq(mScriptList') = NameSeq(mScriptList)
              /\ {mScriptList'[k].data : k \in 1..Len(mScriptList')} = Listed
              /\ pageWeights' = pageWeights
      ]_vars

\* the query "a." lists nothing although the query "a", typed on the way to
\* it, listed the page named "Ab"
C14_Witness ==
    /\ mRendered
    /\ ~regexError
    /\ mScriptFilter = <<"a", ".">>
    /\ mScriptList = <<>>
    /\ \E i \in 1..Len(pages) : pages[i].mName = <<"A", "b">>

\* C15: the constructed brush history holds the one entry "L0#0", which is
\* the initial texture identifier of the brush window.
C15_SeededHistory ==
    lastCall.op = "constructor" =>
        /\ mBrushHistory = <<"L0#0">>
        /\ mBrushTexture = mBrushHistory[1]

\* the tool as constructed, before any handler has run
C15_Witness ==
    /\ lastCall.op = "constructor"
    /\ Len(mBrushHistory) = 1
    /\ mBrushTexture = "L0#0"
    /\ mTableRows = 0

\* C16: the score of a field is 0 when the pattern is not found in it and
\* otherwise the one value 2, however many tokens occur in the field.
C16_ScoreIsZeroOrFixed ==
    (mRendered /\ ~regexError) =>
        \A i \in 1..Len(pages) :
            /\ pageWeights[i].name =
                  (IF RegexSearch(wordSearch(mScriptFilter), pages[i].mName)
                   THEN 2 ELSE 0)
            /\ pageWeights[i].hint =
                  (IF RegexSearch(wordSearch(mScriptFilter), pages[i].mSearchHints)
                   THEN 2 ELSE 0)

\* a name in which two tokens occur and a name in which one token occurs
\* have the same score
C16_Witness ==
    /\ mRendered
    /\ ~regexError
    /\ Len(pages) = 2
    /\ MatchedTokens(mScriptFilter, pages[1].mName) = 2
    /\ MatchedTokens(mScriptFilter, pages[2].mName) = 1
    /\ pageWeights[1].name = pageWeights[2].name
    /\ pageWeights[1].name > 0

\* C17: for a query with at least one token the score of a field is not zero
\* exactly when one of the tokens occurs in the field as a contiguous
\* substring, letter case ignored and every character standing for itself.
C17_ScoredIffTokenOccurs ==
    (mRendered /\ ~regexError /\ Tokens(mScriptFilter) # {}) =>
        \A i \in 1..Len(pages) :
            /\ (pageWeights[i].name # 0)
                  <=> \E token \in Tokens(mScriptFilter) :
                          Occurs(token, pages[i].mName)
            /\ (pageWeights[i].hint # 0)
                  <=> \E token \in Tokens(mScriptFilter) :
                          Occurs(token, pages[i].mSearchHints)

\* the token "." scored the name "b." and not the name "Ab"
C17_Witness ==
    /\ mRendered
    /\ ~regexError
    /\ mScriptFilter = <<".">>
    /\ \E i, j \in 1..Len(pages) :
          /\ pages[i].mName = <<"b", ".">>
          /\ pageWeights[i].name # 0
          /\ pages[j].mName = <<"A", "b">>
          /\ pageWeights[j].name = 0

\* the tokens of a set in ascending order, one blank between them
RECURSIVE Joined(_)
Joined(tokens) ==
    IF tokens = {} THEN <<>>
    ELSE LET first == CHOOSE t \in tokens :
                          \A u \in tokens \ {t} : StringLess(t, u)
         IN  IF tokens = {first} THEN first
             ELSE first \o <<" ">> \o Joined(tokens \ {first})

\* the query that holds each token of query once, in ascending order
Canon(query) == Joined(Tokens(query))

\* C18: the list and the scores a query leaves are a list and scores that
\* the query of its token set alone (each token once, in a fixed order, one
\* blank between tokens) can leave.
C18_TokenSetOnly ==
    (mRendered /\ ~regexError) =>
        Rendered(wordSearch(Canon(mScriptFilter)), pages, mScriptList, pageWeights)

\* a query whose two tokens are not in ascending order listed a page
C18_Witness ==
    /\ mRendered
    /\ ~regexError
    /\ mScriptFilter = <<"a", " ", "B">>
    /\ Canon(mScriptFilter) = <<"B", " ", "a">>
    /\ Len(mScriptList) = 2
    /\ mScriptList[1].name # mScriptList[2].name

\* the key of a list entry: negated name score, negated hint score, name
KeyOf(item) ==
    [mName |-> item.name,
     mNameWeight |-> 0 - NameScore(item),
     mHintWeight |-> 0 - HintScore(item)]

\* C19 as stated: the key (negated name score, negated hint score, name)
\* totally orders the listed pages: of two list entries the earlier one has
\* the strictly smaller key.
C19_KeyTotalOrder ==
    (mRendered /\ ~regexError) =>
        \A k, l \in 1..Len(mScriptList) :
            k < l => WeightedPageLess(KeyOf(mScriptList[k]), KeyOf(mScriptList[l]))

\* C20: every list entry holds the name of the page at its index, and the
\* index of every page that passed the filter appears in exactly one entry,
\* the index of every other page in none.
C20_EntryPairsNameWithIndex ==
    (mRendered /\ ~regexError) =>
        /\ \A k \in 1..Len(mScriptList) :
              /\ mScriptList[k].data \in 0..(Len(pages) - 1)
              /\ mScriptList[k].name = pages[mScriptList[k].data + 1].mName
        /\ \A i \in 1..Len(pages) :
              Cardinality({k \in 1..Len(mScriptList) : mScriptList[k].data = i - 1})
                  = (IF pageWeights[i].name + pageWeights[i].hint # 0 THEN 1 ELSE 0)

\* a query listed the second page before the first one, each with its name
C20_Witness ==
    /\ mRendered
    /\ ~regexError
    /\ Tokens(mScriptFilter) # {}
    /\ Len(pages) = 2
    /\ Len(mScriptList) = 2
    /\ mScriptList[1].data = 1
    /\ mScriptList[2].data = 0
    /\ mScriptList[1].name # mScriptList[2].name

-----------------------------------------------------------------------------
(* Properties of the settings window *)

\* C24: a selection at a list position below the item count makes the page
\* index stored on that entry the current page and attaches that page, any
\* other selection leaves -1 and no page; a filter change or a render keeps
\* the current page and attaches it again.
C24_SelectionSetsPage ==
    [][ /\ windowCall'.op = "onScriptListSelection" =>
              LET index == windowCall'.index
              IN  IF index >= 0 /\ index < Len(mScriptList)
                  THEN /\ mCurrentPage' = mScriptList[index + 1].data
                       /\ attachedPage' = mScriptList[index + 1].data
                  ELSE /\ mCurrentPage' = -1
                       /\ attachedPage' = -1
        /\ windowCall'.op \in {"onScriptFilterChange", "renderScriptSettings"} =>
              /\ mCurrentPage' = mCurrentPage
              /\ attachedPage' = mCurrentPage
      ]_vars

\* a filter change has dropped the current page from the list and attached
\* it again
C24_Witness ==
    /\ windowCall.op = "onScriptFilterChange"
    /\ mCurrentPage = 1
    /\ attachedPage = 1
    /\ Len(mScriptList) = 1
    /\ mScriptList[1].data = 0

\* the display mode an item of the resolution list was built from
EntryResolution(item) == CHOOSE mode \in ModePool : ResolutionItem(mode) = item

ListedResolutions ==
    {EntryResolution(mResolutionList[i]) : i \in 1..Len(mResolutionList)}

\* C25: a selection in the resolution list leaves the stored resolution and
\* opens the dialog exactly when an item was selected; OK stores the
\* resolution of the selected entry and applies; Cancel leaves the stored
\* resolution and selects the first entry that has it, or none; while the
\* dialog is open nothing but OK changes the stored resolution.
C25_ResolutionNeedsConfirmation ==
    [][ /\ windowCall'.op = "onResolutionSelected" =>
              /\ UNCHANGED <<resolutionX, resolutionY>>
              /\ dialogOpen' = (windowCall'.index # ITEM_NONE)
              /\ windowCall'.index = ITEM_NONE => ~dialogOpen
        /\ windowCall'.op = "onResolutionAccept" =>
              /\ dialogOpen
              /\ <<resolutionX', resolutionY'>>
                    = EntryResolution(mResolutionList[mResolutionIndex + 1])
              /\ windowCall'.applied
        /\ windowCall'.op = "onResolutionCancel" =>
              /\ UNCHANGED <<resolutionX, resolutionY>>
              /\ IF <<resolutionX, resolutionY>> \in ListedResolutions
                 THEN /\ mResolutionIndex' # ITEM_NONE
                      /\ EntryResolution(mResolutionList[mResolutionIndex' + 1])
                            = <<resolutionX, resolutionY>>
                 ELSE mResolutionIndex' = ITEM_NONE
        /\ (dialogOpen /\ <<resolutionX', resolutionY'>> # <<resolutionX, resolutionY>>)
              => windowCall'.op = "onResolutionAccept"
      ]_vars

\* OK has stored 8 x 5, which no settings file of the model holds, from the
\* second entry of the list
C25_Witness ==
    /\ windowCall.op = "onResolutionAccept"
    /\ mResolutionIndex = 1
    /\ resolutionX = 8
    /\ resolutionY = 5
    /\ ~dialogOpen

\* C26: in every state the keyboard switch is shown selected exactly when
\* mKeyboardMode holds and the controller switch exactly when it does not,
\* and a click on the switch of the active mode changes nothing and does not
\* rebuild the controls box.
C26_SwitchesFollowMode ==
    /\ [](/\ mKeyboardSwitch = mKeyboardMode
          /\ mControllerSwitch = ~mKeyboardMode)
    /\ [][ (\/ windowCall'.op = "onKeyboardSwitchClicked" /\ mKeyboardMode
            \/ windowCall'.op = "onControllerSwitchClicked" /\ ~mKeyboardMode) =>
              /\ UNCHANGED <<mKeyboardMode, mKeyboardSwitch, mControllerSwitch,
                             mControlsBox>>
              /\ ~windowCall'.rebuilt
         ]_vars

\* the controller switch was clicked in controller mode
C26_Witness ==
    /\ windowCall.op = "onControllerSwitchClicked"
    /\ ~windowCall.rebuilt
    /\ ~mKeyboardMode
    /\ mControllerSwitch
    /\ ~mKeyboardSwitch
    /\ mControlsBox = "controller"

\* C27: when onOpen has run updateWindowModeSettings with a stored window
\* mode below Windowed over a non-empty list without zero dimensions, the
\* stored resolution is that of a list entry: of the selected entry if there
\* is one, else the former one if it is listed, else that of the first
\* entry; with the mode Windowed the stored resolution is the former one.
C27_FullscreenResolutionListed ==
    [][ windowCall'.op = "onOpen" =>
          LET former == <<resolutionX, resolutionY>>
              stored == <<resolutionX', resolutionY'>>
          IN  /\ ( /\ windowMode \in 0..(Windowed - 1)
                   /\ mResolutionList # <<>>
                   /\ \A e \in ListedResolutions : e[1] # 0 /\ e[2] # 0 ) =>
                    /\ stored \in ListedResolutions
                    /\ stored =
                        (IF mResolutionIndex' # ITEM_NONE
                         THEN EntryResolution(mResolutionList[mResolutionIndex' + 1])
                         ELSE IF former \in ListedResolutions THEN former
                         ELSE EntryResolution(mResolutionList[1]))
              /\ windowMode = Windowed => stored = former
      ]_vars

\* in full screen mode onOpen found no entry to highlight and stored the
\* resolution of the first of two entries
C27_Witness ==
    /\ windowCall.op = "onOpen"
    /\ windowMode = 0
    /\ mResolutionIndex = ITEM_NONE
    /\ Len(mResolutionList) = 2
    /\ <<resolutionX, resolutionY>> = EntryResolution(mResolutionList[1])

====
